---- MODULE Spec2Model ----
(***************************************************************************)
(* Model of the To-Do application (src/app.py): the users and tasks tables *)
(* of the sqlite store, the per-session identity kept in                   *)
(* st.session_state["user"], and the operations of the authentication and  *)
(* task services with the gamification they trigger.                       *)
(*                                                                         *)
(* Python values are modelled as follows.  Text (titles, emails, names,    *)
(* passwords) is a sequence of one-character strings.  None, date objects, *)
(* and the ISO strings written to the store are tagged records, so that    *)
(* isoformat()/fromisoformat() are real conversions.  The done column is   *)
(* the INTEGER 0/1 the store holds.                                        *)
(*                                                                         *)
(* The script stops at render_auth() while no user is in the session       *)
(* (src/app.py:424-426), so the task handlers run only with a session user *)
(* and the JSON fallback branches are never taken (USE_DB = True).         *)
(***************************************************************************)
EXTENDS Integers, Sequences, FiniteSets, TLC

VARIABLES users, tasks, session, clock, pc

vars == <<users, tasks, session, clock, pc>>

(***************************************************************************)
(* Bounds of the model.                                                    *)
(***************************************************************************)
\* Spec: the last timestamp, and the points beyond which no task is completed
MaxClock == 1
MaxPoints == 0

\* SpecGame: the same two bounds
MaxClockGame == 2
MaxPointsGame == 20

\* SpecCommit: the same two bounds
MaxClockCommit == 1
MaxPointsCommit == 0

\* SpecList: the same two bounds
MaxClockList == 1
MaxPointsList == 0

\* the last day of the due dates the priority rule is examined on
MaxDue == 7

\* Number of timestamps (timespec="seconds") told apart within one day.
TicksPerDay == 1

Sessions == {"s1", "s2"}
\* the values uuid.uuid4() is drawn from
TaskIds == {"t1", "t2"}

(***************************************************************************)
(* Python values.                                                          *)
(***************************************************************************)
None == [t |-> "None"]

DateObj(d) == [t |-> "date", day |-> d]

\* date.today()
today == DateObj(clock \div TicksPerDay)

\* datetime.now().isoformat(timespec="seconds")
now_iso == [t |-> "isodatetime", day |-> clock \div TicksPerDay, sec |-> clock % TicksPerDay]

\* date.isoformat()
isoformat(d) == [t |-> "isodate", day |-> d.day]

\* datetime.fromisoformat(s).date(); None stands for the exception raised on
\* a string that is not an ISO date or date-time.
fromisoformat_date(s) ==
    IF s.t \in {"isodate", "isodatetime"} THEN DateObj(s.day) ELSE None

\* date - timedelta(days=n)
minus_days(d, n) == DateObj(d.day - n)

(***************************************************************************)
(* Text.                                                                   *)
(***************************************************************************)
lower_char(c) == IF c = "A" THEN "a" ELSE IF c = "B" THEN "b" ELSE c

\* str.lower()
lower(s) == [i \in 1..Len(s) |-> lower_char(s[i])]

RECURSIVE lstrip(_)
lstrip(s) == IF s # <<>> /\ Head(s) = " " THEN lstrip(Tail(s)) ELSE s

RECURSIVE rstrip(_)
rstrip(s) == IF s # <<>> /\ s[Len(s)] = " " THEN rstrip(SubSeq(s, 1, Len(s) - 1)) ELSE s

\* str.strip()
strip(s) == rstrip(lstrip(s))

\* needle in hay, for str
Contains(needle, hay) ==
    \E k \in 0..(Len(hay) - Len(needle)) : SubSeq(hay, k + 1, k + Len(needle)) = needle

\* bcrypt.hash(password)
bcrypt_hash(password) == [t |-> "bcrypt", of |-> password]

\* bcrypt.verify(password, hash)
bcrypt_verify(password, hash) == hash.t = "bcrypt" /\ hash.of = password

(***************************************************************************)
(* users table (init_db): the row id is the position in the sequence       *)
(* (INTEGER PRIMARY KEY AUTOINCREMENT; rows are never deleted).            *)
(***************************************************************************)
UserIds == 1..Len(users)

\* get_user_by_email: the id of the row found, 0 when fetchone() is None
get_user_by_email(email) ==
    LET e == strip(lower(email))
        found == {i \in UserIds : users[i].email = e}
    IN  IF found = {} THEN 0 ELSE CHOOSE i \in found : \A j \in found : i <= j

\* create_user storing the email as typed
create_user_raw_email(name, email, password, provider) ==
    LET row == [email |-> email,
                name |-> strip(name),
                password_hash |-> IF password # <<>> THEN bcrypt_hash(password) ELSE None,
                provider |-> provider,
                points |-> 0,
                streak |-> 0,
                last_complete_date |-> None]
    IN  IF \E i \in UserIds : users[i].email = row.email
        THEN users
        ELSE Append(users, row)

\* create_user: the users table after the INSERT; the table is unchanged when
\* the UNIQUE constraint on email raises sqlite3.IntegrityError.
create_user(name, email, password, provider) ==
    LET row == [email |-> strip(lower(email)),
                name |-> strip(name),
                password_hash |-> IF password # <<>> THEN bcrypt_hash(password) ELSE None,
                provider |-> provider,
                points |-> 0,
                streak |-> 0,
                last_complete_date |-> None]
    IN  IF \E i \in UserIds : users[i].email = row.email
        THEN users
        ELSE Append(users, row)

\* login_local verifying the password before looking at the provider
login_local_password_first(email, password) ==
    LET uid == get_user_by_email(email)
    IN  IF uid = 0 THEN <<0, "No account found for that email.">>
        ELSE IF ~bcrypt_verify(password, users[uid].password_hash)
             THEN <<0, "Incorrect password.">>
        ELSE IF users[uid].provider # "local"
             THEN <<0, "This email is registered via Google.">>
        ELSE <<uid, "">>

\* login_local: <<user id or 0, error>>
login_local(email, password) ==
    LET uid == get_user_by_email(email)
    IN  IF uid = 0 THEN <<0, "No account found for that email.">>
        ELSE IF users[uid].provider # "local"
             THEN <<0, "This email is registered via Google.">>
        ELSE IF ~bcrypt_verify(password, users[uid].password_hash)
             THEN <<0, "Incorrect password.">>
        ELSE <<uid, "">>

\* the identity render_auth puts in st.session_state["user"]
identity(uid) ==
    [id |-> uid, email |-> users[uid].email, name |-> users[uid].name,
     provider |-> users[uid].provider]

(***************************************************************************)
(* Task service.                                                           *)
(***************************************************************************)
\* suggest_priority_by_due with the Medium window one day short
suggest_priority_by_due_short(due, tdy) ==
    IF due = None THEN "Low"
    ELSE LET delta == due.day - tdy.day
         IN  IF delta <= 0 THEN "High" ELSE IF delta < 3 THEN "Medium" ELSE "Low"

\* suggest_priority_by_due, with date.today() passed as tdy
suggest_priority_by_due(due, tdy) ==
    IF due = None THEN "Low"
    ELSE IF due.t = "isodate" \/ due.t = "isodatetime"
         THEN LET delta == fromisoformat_date(due).day - tdy.day
              IN  IF delta <= 0 THEN "High" ELSE IF delta <= 3 THEN "Medium" ELSE "Low"
    ELSE IF due.t = "date"
         THEN LET delta == due.day - tdy.day
              IN  IF delta <= 0 THEN "High" ELSE IF delta <= 3 THEN "Medium" ELSE "Low"
    ELSE "Low"

\* add_task applying the due-date rule to every priority
add_task_always_suggest(uid, task_id, title, desc, due, priority, category) ==
    LET row == [user_id |-> uid,
                title |-> strip(title),
                desc |-> strip(desc),
                due |-> IF due.t = "date" THEN isoformat(due) ELSE None,
                priority |-> suggest_priority_by_due(due, today),
                category |-> category,
                done |-> 0,
                created_at |-> now_iso,
                completed_at |-> None]
    IN  IF task_id \in DOMAIN tasks
        THEN tasks
        ELSE [i \in DOMAIN tasks \cup {task_id} |-> IF i = task_id THEN row ELSE tasks[i]]

\* add_task in the store branch: the tasks table after the INSERT; unchanged
\* when the PRIMARY KEY constraint on id raises sqlite3.IntegrityError.
add_task(uid, task_id, title, desc, due, priority, category) ==
    LET prio == IF priority \in {"None", "Auto"}
                THEN suggest_priority_by_due(due, today)
                ELSE priority
        row == [user_id |-> uid,
                title |-> strip(title),
                desc |-> strip(desc),
                due |-> IF due.t = "date" THEN isoformat(due) ELSE None,
                priority |-> prio,
                category |-> category,
                done |-> 0,
                created_at |-> now_iso,
                completed_at |-> None]
    IN  IF task_id \in DOMAIN tasks
        THEN tasks
        ELSE [i \in DOMAIN tasks \cup {task_id} |-> IF i = task_id THEN row ELSE tasks[i]]

\* update_task, lines 211-214: the keyword arguments as bound to the UPDATE
with_done(updates) ==
    IF "done" \in DOMAIN updates
    THEN LET d == IF updates["done"] THEN 1 ELSE 0
             keys == IF d = 1 THEN DOMAIN updates \cup {"completed_at"} ELSE DOMAIN updates
         IN  [k \in keys |-> IF k = "done" THEN d
                             ELSE IF k = "completed_at" /\ d = 1 THEN now_iso
                             ELSE updates[k]]
    ELSE updates

\* update_task, lines 215-220: UPDATE tasks SET ... WHERE id = ? AND user_id = ?
update_task_row(uid, task_id, updates) ==
    LET upd == with_done(updates)
    IN  [i \in DOMAIN tasks |->
            IF i = task_id /\ tasks[i].user_id = uid
            THEN LET set(k) == IF k \in DOMAIN upd THEN upd[k] ELSE tasks[i][k]
                 IN  [user_id |-> set("user_id"), title |-> set("title"),
                      desc |-> set("desc"), due |-> set("due"),
                      priority |-> set("priority"), category |-> set("category"),
                      done |-> set("done"), created_at |-> set("created_at"),
                      completed_at |-> set("completed_at")]
            ELSE tasks[i]]

\* the bonus with High and Medium exchanged
priority_bonus_swapped(prio) ==
    IF prio = "High" THEN 2 ELSE IF prio = "Medium" THEN 5 ELSE 0

\* {"High":5,"Medium":2,"Low":0}.get(prio, 0)
priority_bonus(prio) ==
    IF prio = "High" THEN 5 ELSE IF prio = "Medium" THEN 2 ELSE 0

\* the streak without the branch for a completion on the same day
streak_step_no_same_day(streak, last_date, tdy) ==
    IF last_date = minus_days(tdy, 1) THEN streak + 1 ELSE 1

\* update_task, lines 240-245: the streak after a completion
streak_step(streak, last_date, tdy) ==
    IF last_date = minus_days(tdy, 1) THEN streak + 1
    ELSE IF last_date = tdy THEN streak
    ELSE 1

\* update_task, lines 223-248: the users table after the gamification; tbl is
\* the tasks table the priority is read from.
gamify(uid, task_id, tbl) ==
    LET hasrow == uid \in UserIds
        points == IF hasrow THEN users[uid].points ELSE 0
        streak == IF hasrow THEN users[uid].streak ELSE 0
        last == IF hasrow THEN users[uid].last_complete_date ELSE None
        last_date == IF last # None THEN fromisoformat_date(last) ELSE None
        prio == IF task_id \in DOMAIN tbl /\ tbl[task_id].user_id = uid
                THEN tbl[task_id].priority
                ELSE "Medium"
        new_points == points + 10 + priority_bonus(prio)
        new_streak == streak_step(streak, last_date, today)
    IN  [i \in UserIds |->
            IF i = uid
            THEN [users[i] EXCEPT !.points = new_points,
                                  !.streak = new_streak,
                                  !.last_complete_date = isoformat(today)]
            ELSE users[i]]

\* the gamification run for every update that names done
gamified_any_done(updates) == "done" \in DOMAIN updates

\* update_task, line 222: is the gamification run
gamified(updates) == "done" \in DOMAIN updates /\ with_done(updates)["done"] = 1

\* delete_task: DELETE FROM tasks WHERE id = ? AND user_id = ?
delete_task(uid, task_id) ==
    LET keep == {i \in DOMAIN tasks : ~(i = task_id /\ tasks[i].user_id = uid)}
    IN  [i \in keep |-> tasks[i]]

\* load_tasks, lines 150-152: dict(r) with done converted by bool()
task_dict(i) ==
    [id |-> i, user_id |-> tasks[i].user_id, title |-> tasks[i].title,
     desc |-> tasks[i].desc, due |-> tasks[i].due, priority |-> tasks[i].priority,
     category |-> tasks[i].category, done |-> tasks[i].done # 0,
     created_at |-> tasks[i].created_at, completed_at |-> tasks[i].completed_at]

\* a <= b for the strings of isoformat(timespec="seconds")
iso_le(a, b) == a.day < b.day \/ (a.day = b.day /\ a.sec <= b.sec)

\* the lists of the rows with the given ids that ORDER BY created_at ASC can
\* return; the order of rows of equal created_at is left to the store
ordered_rows(ids) ==
    LET n == Cardinality(ids)
        orders == {o \in [1..n -> ids] :
                      /\ \A k, l \in 1..n : k # l => o[k] # o[l]
                      /\ \A k, l \in 1..n :
                            k < l => iso_le(tasks[o[k]].created_at, tasks[o[l]].created_at)}
    IN  {[k \in 1..n |-> task_dict(o[k])] : o \in orders}

\* load_tasks selecting the rows of every user
load_tasks_all_users(uid) == ordered_rows(DOMAIN tasks)

\* load_tasks in the store branch:
\* SELECT * FROM tasks WHERE user_id = ? ORDER BY created_at ASC
load_tasks(uid) == ordered_rows({i \in DOMAIN tasks : tasks[i].user_id = uid})

\* task_matches, lines 464-477, with the values of the four filter widgets
task_matches(t, flt) ==
    /\ flt.q # <<>>
          => LET ql == lower(flt.q)
             IN  Contains(ql, lower(t.title)) \/ Contains(ql, lower(t.desc))
    /\ flt.status # "All" => t.done = (flt.status = "Done")
    /\ flt.priority # "All" => t.priority = flt.priority
    /\ flt.category # "All" => t.category = flt.category

(***************************************************************************)
(* Inputs: the forms a user can submit.                                    *)
(***************************************************************************)
SignupForms ==
    { [name |-> <<"n">>, email |-> <<"a">>, pw1 |-> <<"p">>, pw2 |-> <<"p">>],
      [name |-> <<"n">>, email |-> <<" ", "A">>, pw1 |-> <<"p">>, pw2 |-> <<"p">>],
      [name |-> <<"n">>, email |-> <<"b">>, pw1 |-> <<"p">>, pw2 |-> <<"p">>],
      [name |-> <<"n">>, email |-> <<" ">>, pw1 |-> <<"p">>, pw2 |-> <<"p">>],
      [name |-> <<"n">>, email |-> <<>>, pw1 |-> <<"p">>, pw2 |-> <<"p">>],
      [name |-> <<>>, email |-> <<"b">>, pw1 |-> <<"p">>, pw2 |-> <<"p">>],
      [name |-> <<"n">>, email |-> <<"b">>, pw1 |-> <<>>, pw2 |-> <<>>],
      [name |-> <<"n">>, email |-> <<"b">>, pw1 |-> <<"p">>, pw2 |-> <<"q">>] }

LoginForms ==
    { [email |-> e, password |-> p] : e \in {<<"A", " ">>, <<"b">>}, p \in {<<"p">>, <<"q">>} }

\* the dates of the date_input widget
DueDays == {0, 4}

CreateForms ==
    { [title |-> <<"x">>, desc |-> <<>>, due |-> None, priority_sel |-> "Auto", category |-> "Work"],
      [title |-> <<" ">>, desc |-> <<>>, due |-> None, priority_sel |-> "Auto", category |-> "Work"],
      [title |-> <<"x">>, desc |-> <<>>, due |-> DateObj(4), priority_sel |-> "High", category |-> "Work"] }
    \cup { [title |-> <<" ", "x">>, desc |-> <<"d", " ">>, due |-> DateObj(d),
            priority_sel |-> "Auto", category |-> "Health"] : d \in DueDays }

EditForms ==
    { [title |-> t, desc |-> <<>>, due |-> None, priority |-> "Medium", category |-> "Other"] :
        t \in {<<"y", " ">>, <<" ">>} }

(***************************************************************************)
(* State machine.                                                          *)
(***************************************************************************)
Idle == [at |-> "idle"]

Init ==
    /\ users = <<>>
    /\ tasks = <<>>
    /\ session = [s \in Sessions |-> None]
    /\ clock = 0
    /\ pc = [s \in Sessions |-> Idle]

\* the session may submit a form of the authentication page
AtAuth(s) == pc[s] = Idle /\ session[s] = None

\* the session may use the pages behind the authentication
AtApp(s) == pc[s] = Idle /\ session[s] # None

\* time passes
Tick ==
    /\ clock' = clock + 1
    /\ UNCHANGED <<users, tasks, session, pc>>

\* render_auth, "Sign up" tab, lines 411-418: is create_user reached
signup_valid(f) ==
    /\ strip(f.name) # <<>> /\ strip(f.email) # <<>> /\ strip(f.pw1) # <<>>
    /\ f.pw1 = f.pw2
    /\ get_user_by_email(f.email) = 0

\* render_auth, "Sign up" tab, lines 411-420
Signup(s, f) ==
    /\ AtAuth(s)
    /\ users' = IF signup_valid(f) THEN create_user(f.name, f.email, f.pw1, "local") ELSE users
    /\ UNCHANGED <<tasks, session, clock, pc>>

\* render_auth, "Login" tab, lines 396-403
Login(s, f) ==
    /\ AtAuth(s)
    /\ LET r == login_local(f.email, f.password)
       IN  session' = IF r[1] # 0 THEN [session EXCEPT ![s] = identity(r[1])] ELSE session
    /\ UNCHANGED <<users, tasks, clock, pc>>

\* the Logout button, lines 440-444
Logout(s) ==
    /\ AtApp(s)
    /\ session' = [session EXCEPT ![s] = None]
    /\ UNCHANGED <<users, tasks, clock, pc>>

\* the Create Task page submit handler, lines 573-581; task_id is uuid.uuid4()
CreateTask(s, f, task_id) ==
    /\ AtApp(s)
    /\ tasks' = IF strip(f.title) = <<>>
                THEN tasks
                ELSE add_task(session[s].id, task_id, f.title, f.desc, f.due,
                              IF f.priority_sel = "Auto" THEN "None" ELSE f.priority_sel,
                              f.category)
    /\ UNCHANGED <<users, session, clock, pc>>

\* update_task(task_id, **updates) in the session of s, run as one step
update_task(s, task_id, updates) ==
    /\ AtApp(s)
    /\ tasks' = update_task_row(session[s].id, task_id, updates)
    /\ users' = IF gamified(updates) THEN gamify(session[s].id, task_id, tasks') ELSE users
    /\ UNCHANGED <<session, clock, pc>>

\* the done checkbox, lines 489-494: update_task(t["id"], done=toggled)
ToggleDone(s, task_id, toggled) == update_task(s, task_id, [done |-> toggled])

\* the keyword arguments of the edit form save handler with done=False added
edit_updates_clear_done(f) ==
    [title |-> strip(f.title), desc |-> strip(f.desc),
     due |-> IF f.due.t = "date" THEN isoformat(f.due) ELSE None,
     priority |-> f.priority, category |-> f.category, done |-> FALSE]

\* the keyword arguments of the edit form save handler, lines 530-535
edit_updates(f) ==
    [title |-> strip(f.title), desc |-> strip(f.desc),
     due |-> IF f.due.t = "date" THEN isoformat(f.due) ELSE None,
     priority |-> f.priority, category |-> f.category]

\* the edit form save handler, lines 529-537
EditSave(s, task_id, f) == update_task(s, task_id, edit_updates(f))

\* the Delete button, lines 538-541: delete_task(t["id"])
Delete(s, task_id) ==
    /\ AtApp(s)
    /\ tasks' = delete_task(session[s].id, task_id)
    /\ UNCHANGED <<users, session, clock, pc>>

\* the Tasks page, lines 453-479: the filtered list it renders
ViewTasks(s, flt) ==
    /\ AtApp(s)
    /\ \E rows \in load_tasks(session[s].id) :
          pc' = [pc EXCEPT ![s] = [at |-> "tasks", filters |-> flt,
                                   filtered |-> SelectSeq(rows, LAMBDA t : task_matches(t, flt))]]
    /\ UNCHANGED <<users, tasks, session, clock>>

\* the script run that rendered the Tasks page ends
LeaveTasks(s) ==
    /\ pc[s].at = "tasks"
    /\ pc' = [pc EXCEPT ![s] = Idle]
    /\ UNCHANGED <<users, tasks, session, clock>>

\* the session user has not passed the points bound
Below(s, maxPoints) == session[s] # None /\ users[session[s].id].points <= maxPoints

(***************************************************************************)
(* Spec: the handlers run one at a time.  A handler depends on its session *)
(* only through the session user, so one session that logs in and out      *)
(* yields every state of the store.                                        *)
(***************************************************************************)
\* the forms of Spec: no due date, a due date of day 0, and an explicit
\* priority; an edit that blanks the title
CreateFormsStore == {f \in CreateForms : f.due # DateObj(4) \/ f.priority_sel # "Auto"}

EditFormsStore == {f \in EditForms : strip(f.title) = <<>>}

Next ==
    \/ clock < MaxClock /\ Tick
    \/ \E f \in SignupForms : Signup("s1", f)
    \/ \E f \in LoginForms : Login("s1", f)
    \/ Logout("s1")
    \/ \E f \in CreateFormsStore, i \in TaskIds : CreateTask("s1", f, i)
    \/ \E i \in TaskIds : Below("s1", MaxPoints) /\ ToggleDone("s1", i, TRUE)
    \/ \E i \in TaskIds : ToggleDone("s1", i, FALSE)
    \/ \E i \in TaskIds, f \in EditFormsStore : EditSave("s1", i, f)
    \/ \E i \in TaskIds : Delete("s1", i)

Spec == Init /\ [][Next]_vars

(***************************************************************************)
(* SpecGame: the same handlers for one account and one task id, over more  *)
(* days and more completions.                                              *)
(***************************************************************************)
SignupFormsGame == {f \in SignupForms : strip(lower(f.email)) # <<"b">>}

NextGame ==
    \/ clock < MaxClockGame /\ Tick
    \/ \E f \in SignupFormsGame : Signup("s1", f)
    \/ \E f \in LoginForms : Login("s1", f)
    \/ Logout("s1")
    \/ \E f \in CreateForms, i \in TaskIds : CreateTask("s1", f, i)
    \/ \E i \in TaskIds : Below("s1", MaxPointsGame) /\ ToggleDone("s1", i, TRUE)
    \/ \E i \in TaskIds : ToggleDone("s1", i, FALSE)
    \/ \E i \in TaskIds, f \in EditForms : EditSave("s1", i, f)
    \/ \E i \in TaskIds : Delete("s1", i)

SpecGame == Init /\ [][NextGame]_vars

(***************************************************************************)
(* SpecCommit: two sessions whose handlers interleave at the commits of    *)
(* the store.  The sign-up handler reads the users table (line 416) and    *)
(* inserts later (create_user, lines 117-121); update_task commits the     *)
(* task row (line 220) and the gamification (line 248) separately.         *)
(***************************************************************************)
\* render_auth, lines 411-418: the checks, up to the call of create_user
SignupCheck(s, f) ==
    /\ AtAuth(s)
    /\ pc' = IF signup_valid(f) THEN [pc EXCEPT ![s] = [at |-> "create_user", form |-> f]] ELSE pc
    /\ UNCHANGED <<users, tasks, session, clock>>

\* render_auth, line 419: create_user and its commit
SignupInsert(s) ==
    /\ pc[s].at = "create_user"
    /\ users' = create_user(pc[s].form.name, pc[s].form.email, pc[s].form.pw1, "local")
    /\ pc' = [pc EXCEPT ![s] = Idle]
    /\ UNCHANGED <<tasks, session, clock>>

\* update_task, lines 209-220: the UPDATE of the task row and its commit
UpdateCommit(s, task_id, updates) ==
    /\ AtApp(s)
    /\ tasks' = update_task_row(session[s].id, task_id, updates)
    /\ pc' = IF gamified(updates) THEN [pc EXCEPT ![s] = [at |-> "gamify", task_id |-> task_id]] ELSE pc
    /\ UNCHANGED <<users, session, clock>>

\* update_task, lines 222-248: the gamification and its commit
GamifyCommit(s) ==
    /\ pc[s].at = "gamify"
    /\ users' = gamify(session[s].id, pc[s].task_id, tasks)
    /\ pc' = [pc EXCEPT ![s] = Idle]
    /\ UNCHANGED <<tasks, session, clock>>

\* the script run ends between the two commits of update_task: an exception
\* of the store at lines 223-247 (sqlite3.OperationalError), or the process
\* stops
Interrupt(s) ==
    /\ pc[s].at = "gamify"
    /\ pc' = [pc EXCEPT ![s] = Idle]
    /\ UNCHANGED <<users, tasks, session, clock>>

CreateFormsCommit == {f \in CreateForms : f.priority_sel = "High" \/ strip(f.title) = <<>>}

NextCommit ==
    \/ clock < MaxClockCommit /\ Tick
    \/ \E s \in Sessions, f \in SignupForms : SignupCheck(s, f)
    \/ \E s \in Sessions : SignupInsert(s)
    \/ \E s \in Sessions, f \in LoginForms : Login(s, f)
    \/ \E s \in Sessions : Logout(s)
    \/ \E s \in Sessions, f \in CreateFormsCommit : CreateTask(s, f, "t1")
    \/ \E s \in Sessions : Below(s, MaxPointsCommit) /\ UpdateCommit(s, "t1", [done |-> TRUE])
    \/ \E s \in Sessions : UpdateCommit(s, "t1", [done |-> FALSE])
    \/ \E s \in Sessions : GamifyCommit(s)
    \/ \E s \in Sessions : Interrupt(s)
    \/ \E s \in Sessions : Delete(s, "t1")

SpecCommit == Init /\ [][NextCommit]_vars

(***************************************************************************)
(* Properties.                                                             *)
(***************************************************************************)
\* the task id names a row owned by the user of session s
Owned(s, i) == i \in DOMAIN tasks /\ tasks[i].user_id = session[s].id

\* the points the specification awards for completing a task of priority p
AwardFor(p) == IF p = "High" THEN 15 ELSE IF p = "Medium" THEN 12 ELSE 10

\* the due-date rule of the specification, for today's day number t
DueRule(d, t) ==
    IF d = None THEN "Low"
    ELSE IF d.day <= t THEN "High"
    ELSE IF d.day - t <= 3 THEN "Medium"
    ELSE "Low"

\* C1: update(done=true) on an owned task that is already done changes neither
\* the users table (points, streak, last completion date) nor the completion
\* timestamp of the task.
C1_Idempotent ==
    [][\A s \in Sessions, i \in TaskIds :
          (ToggleDone(s, i, TRUE) /\ Owned(s, i) /\ tasks[i].done = 1)
              => (users' = users /\ tasks'[i].completed_at = tasks[i].completed_at)]_vars

\* C2: an update or a delete with the id of a task of another user, or with an
\* id that names no task, changes neither the tasks table nor the users table.
C2_OwnershipIsolation ==
    [][\A s \in Sessions, i \in TaskIds :
          (/\ AtApp(s)
           /\ ~Owned(s, i)
           /\ \/ \E b \in BOOLEAN : ToggleDone(s, i, b)
              \/ \E f \in EditForms : EditSave(s, i, f)
              \/ Delete(s, i))
              => (tasks' = tasks /\ users' = users)]_vars

\* C3: every stored task has a completion timestamp if and only if it is done.
C3_CompletedIffDone ==
    \A i \in DOMAIN tasks : (tasks[i].completed_at # None) <=> (tasks[i].done = 1)

\* C4: a task becomes done in the store in the very step in which its owner
\* is awarded the points of that completion, and points change in no other
\* step.
C4_Atomic ==
    [][/\ \A i \in DOMAIN tasks \cap DOMAIN tasks' :
             (tasks[i].done = 0 /\ tasks'[i].done = 1)
                 => users'[tasks[i].user_id].points
                        = users[tasks[i].user_id].points + AwardFor(tasks[i].priority)
       /\ \A u \in UserIds :
             users'[u].points # users[u].points
                 => \E i \in DOMAIN tasks \cap DOMAIN tasks' :
                        tasks[i].user_id = u /\ tasks[i].done = 0 /\ tasks'[i].done = 1]_vars

\* C5: completing a pending task of the session user adds to that user's
\* points exactly 10 plus the bonus of the stored priority (High 5, Medium 2,
\* Low 0) and changes no other user; a task created with priority Auto and
\* due today is stored as High, and completing a High task as a user with no
\* points and no streak gives points 15, streak 1 and a completion timestamp.
C5_PointsAward ==
    [][/\ \A s \in Sessions, i \in TaskIds :
             (ToggleDone(s, i, TRUE) /\ Owned(s, i) /\ tasks[i].done = 0)
                 => LET u == session[s].id
                    IN  /\ users'[u].points = users[u].points + AwardFor(tasks[i].priority)
                        /\ \A v \in UserIds \ {u} : users'[v] = users[v]
                        /\ (users[u].points = 0 /\ users[u].streak = 0 /\ tasks[i].priority = "High")
                               => /\ users'[u].points = 15
                                  /\ users'[u].streak = 1
                                  /\ tasks'[i].completed_at # None
       /\ \A s \in Sessions, i \in TaskIds, f \in CreateForms :
             (/\ i \notin DOMAIN tasks
              /\ f.priority_sel = "Auto" /\ f.due = today
              /\ CreateTask(s, f, i))
                 => tasks'[i].priority = "High"]_vars

C5_Witness ==
    \E u \in UserIds, i \in DOMAIN tasks :
        /\ users[u].points = 15 /\ users[u].streak = 1
        /\ tasks[i].user_id = u /\ tasks[i].done = 1 /\ tasks[i].priority = "High"
        /\ tasks[i].completed_at # None
        /\ tasks[i].category = "Health"
        /\ tasks[i].due # None /\ tasks[i].due.day = tasks[i].created_at.day

\* C6: every completion sets the streak of the session user to streak + 1
\* when the last completion date is yesterday, leaves it when that date is
\* today, and sets it to 1 otherwise; the last completion date becomes today.
C6_StreakStep ==
    [][\A s \in Sessions, i \in TaskIds :
          ToggleDone(s, i, TRUE)
              => LET u == session[s].id
                     last == users[u].last_complete_date
                     t == clock \div TicksPerDay
                 IN  /\ users'[u].streak =
                            IF last # None /\ last.day = t - 1 THEN users[u].streak + 1
                            ELSE IF last # None /\ last.day = t THEN users[u].streak
                            ELSE 1
                     /\ users'[u].last_complete_date = [t |-> "isodate", day |-> t]]_vars

\* a task completed on some day, another on the day after, and the streak is 2
C6_Witness ==
    \E u \in UserIds, i \in DOMAIN tasks, j \in DOMAIN tasks :
        /\ users[u].streak = 2
        /\ tasks[i].user_id = u /\ tasks[j].user_id = u
        /\ tasks[i].done = 1 /\ tasks[j].done = 1
        /\ tasks[j].completed_at.day = tasks[i].completed_at.day + 1
        /\ users[u].last_complete_date.day = tasks[j].completed_at.day

\* the due dates the rule is examined on
DueUniverse == {None} \cup {DateObj(d) : d \in 0..MaxDue}

\* C7: the suggested priority is High iff the due date is today or earlier,
\* Medium iff it is 1 to 3 days ahead, Low iff it is absent or more than 3
\* days ahead.
C7_SuggestPriority ==
    \A d \in DueUniverse :
        LET p == suggest_priority_by_due(d, today)
            t == clock \div TicksPerDay
        IN  /\ (p = "High") <=> (d # None /\ d.day <= t)
            /\ (p = "Medium") <=> (d # None /\ 1 <= d.day - t /\ d.day - t <= 3)
            /\ (p = "Low") <=> (d = None \/ d.day - t > 3)
            /\ p \in {"High", "Medium", "Low"}

\* a task whose priority the rule chose: due 3 days after its creation, Medium
C7_Witness ==
    \E i \in DOMAIN tasks :
        /\ tasks[i].category = "Health"
        /\ tasks[i].priority = "Medium"
        /\ tasks[i].due # None /\ tasks[i].due.day - tasks[i].created_at.day = 3

\* C8: a create with a non-blank title and an unused id adds exactly that one
\* task, owned by the session user, not done, without completion timestamp,
\* with the priority of the due-date rule when Auto was selected and the
\* selected priority otherwise; no other task and no user changes.
C8_Create ==
    [][\A s \in Sessions, i \in TaskIds, f \in CreateForms :
          (strip(f.title) # <<>> /\ i \notin DOMAIN tasks /\ CreateTask(s, f, i))
              => /\ DOMAIN tasks' = DOMAIN tasks \cup {i}
                 /\ \A j \in DOMAIN tasks : tasks'[j] = tasks[j]
                 /\ tasks'[i].user_id = session[s].id
                 /\ tasks'[i].done = 0
                 /\ tasks'[i].completed_at = None
                 /\ tasks'[i].priority =
                        IF f.priority_sel = "Auto"
                        THEN DueRule(f.due, clock \div TicksPerDay)
                        ELSE f.priority_sel
                 /\ users' = users]_vars

\* two tasks, one of them created as High with a due date the rule would not
\* make High
C8_Witness ==
    /\ DOMAIN tasks = TaskIds
    /\ \E i \in DOMAIN tasks :
          /\ tasks[i].priority = "High" /\ tasks[i].done = 0
          /\ tasks[i].due # None /\ tasks[i].due.day > tasks[i].created_at.day
          /\ tasks[i].category = "Work"

\* C9: every stored task has a title that is not empty after trimming.
C9_TitleNonEmpty == \A i \in DOMAIN tasks : strip(tasks[i].title) # <<>>

\* the email as the store normalizes it
Normalized(email) == strip(lower(email))

\* C10, in every state: no two users have the same normalized email.
C10_UniqueEmail ==
    \A i \in UserIds, j \in UserIds :
        i # j => Normalized(users[i].email) # Normalized(users[j].email)

\* C10, in every step: a sign-up with an empty name, email or password or
\* with a registered email goes no further; the users table changes only by
\* one new row at its end, for a form with name, email and password whose
\* normalized email was not registered, with no points, no streak and no
\* last completion date.
C10_Step ==
    /\ \A s \in Sessions, f \in SignupForms :
          (/\ \/ f.name = <<>> \/ f.email = <<>> \/ f.pw1 = <<>>
              \/ \E u \in UserIds : Normalized(users[u].email) = Normalized(f.email)
           /\ SignupCheck(s, f))
              => pc' = pc
    /\ \A s \in Sessions :
          (users' # users /\ SignupInsert(s))
              => LET f == pc[s].form
                 IN  /\ f.name # <<>> /\ f.email # <<>> /\ f.pw1 # <<>>
                     /\ \A u \in UserIds : Normalized(users[u].email) # Normalized(f.email)
                     /\ Len(users') = Len(users) + 1
                     /\ \A u \in UserIds : users'[u] = users[u]
                     /\ Normalized(users'[Len(users')].email) = Normalized(f.email)
                     /\ users'[Len(users')].points = 0
                     /\ users'[Len(users')].streak = 0
                     /\ users'[Len(users')].last_complete_date = None

\* C10: registration and email uniqueness
C10_Registration == []C10_UniqueEmail /\ [][C10_Step]_vars

\* both emails are registered while a session that passed the checks with a
\* spelling of one of them has not inserted yet
C10_Witness ==
    /\ Len(users) = 2
    /\ \E s \in Sessions :
          /\ pc[s].at = "create_user"
          /\ \E u \in UserIds : users[u].email = Normalized(pc[s].form.email)

(***************************************************************************)
(* SpecLogin: the authentication page over the users tables create_user    *)
(* can leave.  render_auth only ever passes provider="local"; the rows of  *)
(* another provider, which login_local tests for, are drawn in the initial *)
(* state as create_user(name, email, None, provider) writes them.          *)
(***************************************************************************)
\* the row create_user inserts for an account of the given provider
account_row(email, provider) ==
    [email |-> strip(lower(email)),
     name |-> <<"n">>,
     password_hash |-> IF provider = "local" THEN bcrypt_hash(<<"p">>) ELSE None,
     provider |-> provider,
     points |-> 0,
     streak |-> 0,
     last_complete_date |-> None]

Providers == {"local", "google"}

StoredUsers ==
    {<<>>}
    \cup {<<account_row(e, pr)>> : e \in {<<"a">>, <<"b">>}, pr \in Providers}
    \cup {<<account_row(<<"a">>, p1), account_row(<<"b">>, p2)>> : p1 \in Providers, p2 \in Providers}

InitLogin ==
    /\ users \in StoredUsers
    /\ tasks = <<>>
    /\ session = [s \in Sessions |-> None]
    /\ clock = 0
    /\ pc = [s \in Sessions |-> Idle]

NextLogin ==
    \/ \E s \in Sessions, f \in SignupForms : Signup(s, f)
    \/ \E s \in Sessions, f \in LoginForms : Login(s, f)
    \/ \E s \in Sessions : Logout(s)
    \/ \E s \in Sessions, f \in CreateFormsCommit, i \in TaskIds : CreateTask(s, f, i)
    \/ \E s \in Sessions, i \in TaskIds : Delete(s, i)

SpecLogin == InitLogin /\ [][NextLogin]_vars

\* the outcome the specification gives login(email, password): the error
\* kind, or the id of the user logged in
LoginOutcome(email, password) ==
    LET m == {u \in UserIds : Normalized(users[u].email) = Normalized(email)}
    IN  IF m = {} THEN [kind |-> "NotFound", id |-> 0]
        ELSE LET u == CHOOSE v \in m : TRUE
             IN  IF users[u].provider # "local" THEN [kind |-> "ProviderMismatch", id |-> 0]
                 ELSE IF users[u].password_hash # [t |-> "bcrypt", of |-> password]
                      THEN [kind |-> "InvalidCredentials", id |-> 0]
                 ELSE [kind |-> "Success", id |-> u]

\* the error kind of a message of login_local
ErrorKind(msg) ==
    IF msg = "No account found for that email." THEN "NotFound"
    ELSE IF msg = "This email is registered via Google." THEN "ProviderMismatch"
    ELSE IF msg = "Incorrect password." THEN "InvalidCredentials"
    ELSE "Success"

\* C11, in every state: login_local answers every form with the outcome of
\* the specification, the checks made in the order not found, provider,
\* password.
C11_Outcome ==
    \A f \in LoginForms :
        LET r == login_local(f.email, f.password)
            o == LoginOutcome(f.email, f.password)
        IN  ErrorKind(r[2]) = o.kind /\ r[1] = o.id

\* C11, in every step: a login changes no stored user or task; a failed one
\* leaves every session as it was, a successful one puts the id, email, name
\* and provider of the matching user in the session that logged in.
C11_Step ==
    \A s \in Sessions, f \in LoginForms :
        Login(s, f)
            => LET o == LoginOutcome(f.email, f.password)
               IN  /\ users' = users /\ tasks' = tasks
                   /\ o.kind # "Success" => session' = session
                   /\ o.kind = "Success"
                          => /\ session'[s] = [id |-> o.id, email |-> users[o.id].email,
                                               name |-> users[o.id].name,
                                               provider |-> users[o.id].provider]
                             /\ \A t \in Sessions \ {s} : session'[t] = session[t]

\* C11: login outcomes
C11_Login == []C11_Outcome /\ [][C11_Step]_vars

\* a session is logged in to a local account while the other account of the
\* table is of another provider
C11_Witness ==
    /\ \E s \in Sessions : session[s] # None /\ users[session[s].id].provider = "local"
    /\ \E u \in UserIds : users[u].provider # "local"

(***************************************************************************)
(* SpecList: the Tasks page over the stores two users can build.           *)
(***************************************************************************)
SignupFormsList == {f \in SignupForms : f.email \in {<<"a">>, <<"b">>} /\ signup_valid(f)}

LoginFormsList == {f \in LoginForms : f.password = <<"p">>}

CreateFormsList ==
    { [title |-> <<"A">>, desc |-> <<>>, due |-> None, priority_sel |-> "High", category |-> "Work"],
      [title |-> <<"x">>, desc |-> <<"B", "a">>, due |-> None, priority_sel |-> "Auto", category |-> "Health"] }

\* the values of the Search, Status, Priority and Category widgets
Filters ==
    [q : {<<>>, <<"A">>, <<"b", "a">>},
     status : {"All", "Pending", "Done"},
     priority : {"All", "Low"},
     category : {"All", "Other"}]

NextList ==
    \/ clock < MaxClockList /\ Tick
    \/ \E f \in SignupFormsList : Signup("s1", f)
    \/ \E f \in LoginFormsList : Login("s1", f)
    \/ Logout("s1")
    \/ \E f \in CreateFormsList, i \in TaskIds : CreateTask("s1", f, i)
    \/ \E i \in TaskIds : Below("s1", MaxPointsList) /\ ToggleDone("s1", i, TRUE)
    \/ \E i \in TaskIds : Delete("s1", i)
    \/ \E flt \in Filters : ViewTasks("s1", flt)
    \/ LeaveTasks("s1")

SpecList == Init /\ [][NextList]_vars

\* the text occurs in the title or the description, letter case ignored
TextFound(q, t) ==
    \E h \in {t.title, t.desc} :
        \E a, b \in 0..Len(h) : a <= b /\ lower(SubSeq(h, a + 1, b)) = lower(q)

\* the task matches every supplied filter
Matches(t, flt) ==
    /\ flt.q = <<>> \/ TextFound(flt.q, t)
    /\ flt.status = "All" \/ (flt.status = "Done" /\ t.done = 1)
                         \/ (flt.status = "Pending" /\ t.done = 0)
    /\ flt.priority = "All" \/ t.priority = flt.priority
    /\ flt.category = "All" \/ t.category = flt.category

\* C12: a listing shows exactly the tasks that the session user owns and that
\* match every supplied filter, each once and as stored, in ascending order
\* of creation time, and changes no stored state.
C12_List ==
    [][\A s \in Sessions :
          (pc[s] = Idle /\ pc'[s].at = "tasks")
              => LET flt == pc'[s].filters
                     shown == pc'[s].filtered
                     want == {i \in DOMAIN tasks :
                                 tasks[i].user_id = session[s].id /\ Matches(tasks[i], flt)}
                 IN  /\ {shown[k].id : k \in DOMAIN shown} = want
                     /\ Len(shown) = Cardinality(want)
                     /\ \A k \in DOMAIN shown :
                           LET t == tasks[shown[k].id]
                           IN  /\ shown[k].user_id = session[s].id
                               /\ shown[k].title = t.title /\ shown[k].desc = t.desc
                               /\ shown[k].due = t.due /\ shown[k].priority = t.priority
                               /\ shown[k].category = t.category
                               /\ shown[k].done = (t.done = 1)
                               /\ shown[k].created_at = t.created_at
                               /\ shown[k].completed_at = t.completed_at
                     /\ \A k, l \in DOMAIN shown :
                           k < l => \/ shown[k].created_at.day < shown[l].created_at.day
                                    \/ /\ shown[k].created_at.day = shown[l].created_at.day
                                       /\ shown[k].created_at.sec <= shown[l].created_at.sec
                     /\ users' = users /\ tasks' = tasks
                     /\ session' = session /\ clock' = clock]_vars

\* a filtered listing shows one task while the store also holds a task of
\* another user
C12_Witness ==
    \E s \in Sessions :
        /\ pc[s].at = "tasks"
        /\ pc[s].filters.q # <<>> /\ pc[s].filters.status = "Done"
        /\ Len(pc[s].filtered) = 1
        /\ \E i \in DOMAIN tasks : tasks[i].user_id # session[s].id

\* keyword arguments of update_task that name some of the five editable
\* columns and not done
PartialUpdates ==
    { [title |-> <<"z">>],
      [desc |-> <<"e">>, due |-> isoformat(DateObj(1))],
      [priority |-> "Low", category |-> "Personal"] }

TaskColumns ==
    {"user_id", "title", "desc", "due", "priority", "category", "done",
     "created_at", "completed_at"}

\* update_task(task_id, **upd) by the user uid sets the columns upd names in
\* the row task_id, nothing else in the tasks table, and runs no gamification
PartialFrame(uid, task_id, upd) ==
    LET after == update_task_row(uid, task_id, upd)
    IN  /\ ~gamified(upd)
        /\ DOMAIN after = DOMAIN tasks
        /\ \A j \in DOMAIN tasks, k \in TaskColumns :
              after[j][k] = IF j = task_id /\ k \in DOMAIN upd THEN upd[k] ELSE tasks[j][k]

\* C13: an edit of an owned task sets its title, description, due date,
\* priority and category to the submitted values and leaves its done flag,
\* completion and creation timestamps, id and owner, every other task and
\* every user as they were; so does an update that supplies only some of the
\* five fields.
C13_EditFrame ==
    [][\A s \in Sessions, i \in TaskIds, f \in EditForms :
          (AtApp(s) /\ Owned(s, i) /\ EditSave(s, i, f))
              => /\ DOMAIN tasks' = DOMAIN tasks
                 /\ tasks'[i].title = strip(f.title)
                 /\ tasks'[i].desc = strip(f.desc)
                 /\ tasks'[i].due = (IF f.due = None THEN None ELSE [t |-> "isodate", day |-> f.due.day])
                 /\ tasks'[i].priority = f.priority
                 /\ tasks'[i].category = f.category
                 /\ tasks'[i].done = tasks[i].done
                 /\ tasks'[i].completed_at = tasks[i].completed_at
                 /\ tasks'[i].created_at = tasks[i].created_at
                 /\ tasks'[i].user_id = tasks[i].user_id
                 /\ \A j \in DOMAIN tasks \ {i} : tasks'[j] = tasks[j]
                 /\ users' = users
                 /\ \A upd \in PartialUpdates : PartialFrame(session[s].id, i, upd)]_vars

\* a task completed as a High task, which gave its owner 15 points, has been
\* edited since: it is still done and carries the values of the edit form
C13_Witness ==
    \E i \in DOMAIN tasks :
        /\ tasks[i].done = 1 /\ tasks[i].completed_at # None
        /\ tasks[i].title = <<>> /\ tasks[i].priority = "Medium"
        /\ users[tasks[i].user_id].points = 15

\* in this step the user u completes a task: a task of u goes from pending
\* to done
Completes(u) ==
    \E i \in DOMAIN tasks \cap DOMAIN tasks' :
        tasks[i].user_id = u /\ tasks[i].done = 0 /\ tasks'[i].done = 1

\* C14: the streak of a user is the number of consecutive calendar days,
\* ending at the last completion date, on each of which the user completed a
\* task.  Days never decrease, so this is: the streak is 0 and the date is
\* unset until the first completion; a completion on day d sets the date to
\* d and makes the streak one more when the date was d - 1, leaves it when
\* the date was d, and makes it 1 otherwise; and a step in which the user
\* completes no task changes neither.
C14_StreakMeaning ==
    [][\A u \in UserIds :
          LET d == clock \div TicksPerDay
              last == users[u].last_complete_date
              streak == users[u].streak
          IN  /\ (streak = 0) <=> (last = None)
              /\ Completes(u)
                    => /\ users'[u].last_complete_date = [t |-> "isodate", day |-> d]
                       /\ users'[u].streak =
                              IF last = [t |-> "isodate", day |-> d - 1] THEN streak + 1
                              ELSE IF last = [t |-> "isodate", day |-> d] THEN streak
                              ELSE 1
              /\ ~Completes(u)
                    => /\ users'[u].streak = streak
                       /\ users'[u].last_complete_date = last]_vars

\* C15: no step lowers the points of a user; un-marking an owned done task
\* and deleting an owned done task leave the users table as it was; marking
\* an un-marked task done again awards its points again.
C15_PointsKept ==
    [][/\ \A u \in UserIds : users'[u].points >= users[u].points
       /\ \A s \in Sessions, i \in TaskIds :
             (AtApp(s) /\ Owned(s, i) /\ tasks[i].done = 1
                 /\ (ToggleDone(s, i, FALSE) \/ Delete(s, i)))
                 => users' = users
       /\ \A s \in Sessions, i \in TaskIds :
             (AtApp(s) /\ Owned(s, i) /\ tasks[i].done = 0 /\ tasks[i].completed_at # None
                 /\ ToggleDone(s, i, TRUE))
                 => users'[session[s].id].points
                        = users[session[s].id].points + AwardFor(tasks[i].priority)]_vars

\* a task that was completed has been un-marked and its owner still holds
\* the points
C15_Witness ==
    \E i \in DOMAIN tasks :
        /\ tasks[i].done = 0 /\ tasks[i].completed_at # None
        /\ users[tasks[i].user_id].points >= 10

====
